---- MODULE Spec2Model ----
(***************************************************************************)
(* StudyPlan.generate_plan of src/main.py (StudyNest study planner),       *)
(* modelled statement block by statement block.  The Subject objects are   *)
(* owned by the caller and are shared by every call on the same StudyPlan. *)
(***************************************************************************)
EXTENDS Integers, Sequences, FiniteSets, TLC

\* ---------------------------------------------------------------- bounds
MaxSubjects == 2
MaxHours == 3
MaxNegDays == 1
MaxDays == 3
MaxCalls == 2

Names == {"Math", "Physics"}

\* ------------------------------------------------------------- variables
VARIABLES subjects, days, pc, total_hours, hours_per_day, plan,
          current_subject_index, day_num, hours_assigned_today,
          subject_cycle_index, result,
          supplied_hours, entry_hours, calls, first_result

vars == <<subjects, days, pc, total_hours, hours_per_day, plan,
          current_subject_index, day_num, hours_assigned_today,
          subject_cycle_index, result,
          supplied_hours, entry_hours, calls, first_result>>

\* --------------------------------------------------------------- helpers
Min(a, b) == IF a <= b THEN a ELSE b

Max(a, b) == IF a >= b THEN a ELSE b

\* class Subject: a name and the hours still needed
Subject(name, hours_needed) == [name |-> name, hours_needed |-> hours_needed]

RECURSIVE SumHours(_)
\* sum(sub.hours_needed for sub in subs)
SumHours(subs) ==
    IF subs = <<>> THEN 0
    ELSE Head(subs).hours_needed + SumHours(Tail(subs))

\* the hours_needed fields of a subject list, position by position
HoursOf(subs) == [i \in 1..Len(subs) |-> subs[i].hours_needed]

\* f'Day {day_num}'
DayKey(d) == <<"Day", d>>

ErrorKey == <<"Error">>

ErrorMessage == "Number of days must be at least 1."

\* f"{subject.name} - {hours} hrs"
Entry(name, hours) == [name |-> name, hours |-> hours, tail |-> "hrs"]

\* f"Remaining Subjects - {remaining_total_hours} hrs (Adjusted)"
RemainingEntry(hours) ==
    [name |-> "Remaining Subjects", hours |-> hours, tail |-> "hrs (Adjusted)"]

\* A Python dict: items in insertion order, keys unique.
HasKey(d, k) == \E i \in 1..Len(d) : d[i].key = k

KeyIndex(d, k) == CHOOSE i \in 1..Len(d) : d[i].key = k

DictGet(d, k) == d[KeyIndex(d, k)].value

DictSet(d, k, v) ==
    IF HasKey(d, k)
    THEN [d EXCEPT ![KeyIndex(d, k)] = [key |-> k, value |-> v]]
    ELSE Append(d, [key |-> k, value |-> v])

\* if self.days <= 0
DaysInvalidOffByOne(d) == d <= 1

DaysInvalidStrict(d) == d < 0

DaysInvalid(d) == d <= 0

\* max(1, total_hours // self.days) if total_hours > 0 else 0
HoursPerDay(total, d) == IF total > 0 THEN Max(1, total \div d) ELSE 0

\* min(subject.hours_needed, hours_per_day - hours_assigned_today)
HoursToAssign(needed, perday, today) == Min(needed, perday - today)

\* hours_assigned_today < hours_per_day and current_subject_index < len(self.subjects)
WhileCond ==
    /\ hours_assigned_today < hours_per_day
    /\ current_subject_index < Len(subjects)

\* ------------------------------------------------------------------ Init
SubjectLists ==
    UNION { [1..n -> { Subject(nm, h) : nm \in Names, h \in 1..MaxHours }] :
            n \in 0..MaxSubjects }

Init ==
    /\ subjects \in SubjectLists
    /\ days \in (0 - MaxNegDays)..MaxDays
    /\ pc = "idle"
    /\ total_hours = 0
    /\ hours_per_day = 0
    /\ plan = <<>>
    /\ current_subject_index = 0
    /\ day_num = 0
    /\ hours_assigned_today = 0
    /\ subject_cycle_index = 0
    /\ result = <<>>
    /\ supplied_hours = HoursOf(subjects)
    /\ entry_hours = HoursOf(subjects)
    /\ calls = 0
    /\ first_result = <<>>

\* --------------------------------------------------------------- actions
\* a caller invokes generate_plan; line 38
Enter ==
    /\ pc \in {"idle", "done"}
    /\ calls < MaxCalls
    /\ calls' = calls + 1
    /\ entry_hours' = HoursOf(subjects)
    /\ total_hours' = SumHours(subjects)
    /\ hours_per_day' = 0
    /\ plan' = <<>>
    /\ current_subject_index' = 0
    /\ day_num' = 0
    /\ hours_assigned_today' = 0
    /\ subject_cycle_index' = 0
    /\ result' = <<>>
    /\ pc' = "check_days"
    /\ UNCHANGED <<subjects, days, supplied_hours, first_result>>

\* lines 41-42
ReturnError ==
    /\ pc = "check_days"
    /\ DaysInvalid(days)
    /\ result' = <<[key |-> ErrorKey, value |-> ErrorMessage]>>
    /\ first_result' = IF calls = 1 THEN result' ELSE first_result
    /\ pc' = "done"
    /\ UNCHANGED <<subjects, days, total_hours, hours_per_day, plan,
                   current_subject_index, day_num, hours_assigned_today,
                   subject_cycle_index, supplied_hours, entry_hours, calls>>

\* lines 45-48 and the first evaluation of range(1, self.days + 1);
\* total_hours // 0 raises ZeroDivisionError
ComputeBudget ==
    /\ pc = "check_days"
    /\ ~DaysInvalid(days)
    /\ IF total_hours > 0 /\ days = 0
       THEN /\ pc' = "raised"
            /\ UNCHANGED <<hours_per_day, plan, current_subject_index, day_num>>
       ELSE /\ hours_per_day' = HoursPerDay(total_hours, days)
            /\ plan' = <<>>
            /\ current_subject_index' = 0
            /\ day_num' = 1
            /\ pc' = "for_day"
    /\ UNCHANGED <<subjects, days, total_hours, hours_assigned_today,
                   subject_cycle_index, result, supplied_hours, entry_hours,
                   calls, first_result>>

\* lines 50-54
DayStart ==
    /\ pc = "for_day"
    /\ day_num <= days
    /\ plan' = DictSet(plan, DayKey(day_num), <<>>)
    /\ hours_assigned_today' = 0
    /\ pc' = "while"
    /\ UNCHANGED <<subjects, days, total_hours, hours_per_day,
                   current_subject_index, day_num, subject_cycle_index, result,
                   supplied_hours, entry_hours, calls, first_result>>

\* one iteration of the while loop, lines 55-71
WhileIter ==
    /\ pc = "while"
    /\ WhileCond
    /\ LET i == current_subject_index + 1
           subject == subjects[i]
           hours_to_assign == HoursToAssign(subject.hours_needed, hours_per_day,
                                            hours_assigned_today)
           left == subject.hours_needed - hours_to_assign
           key == DayKey(day_num)
       IN /\ plan' = DictSet(plan, key,
                        Append(DictGet(plan, key), Entry(subject.name, hours_to_assign)))
          /\ subjects' = [subjects EXCEPT ![i].hours_needed = left]
          /\ hours_assigned_today' = hours_assigned_today + hours_to_assign
          /\ current_subject_index' =
                IF left <= 0 THEN current_subject_index + 1 ELSE current_subject_index
          /\ pc' = IF hours_assigned_today' >= hours_per_day THEN "last_day" ELSE "while"
    /\ UNCHANGED <<days, total_hours, hours_per_day, day_num, subject_cycle_index,
                   result, supplied_hours, entry_hours, calls, first_result>>

\* the while condition of line 55 is false
WhileExit ==
    /\ pc = "while"
    /\ ~WhileCond
    /\ pc' = "last_day"
    /\ UNCHANGED <<subjects, days, total_hours, hours_per_day, plan,
                   current_subject_index, day_num, hours_assigned_today,
                   subject_cycle_index, result, supplied_hours, entry_hours,
                   calls, first_result>>

\* lines 75-78, then the next value of the for loop
LastDay ==
    /\ pc = "last_day"
    /\ LET key == DayKey(day_num)
           remaining_total_hours ==
               SumHours(SubSeq(subjects, current_subject_index + 1, Len(subjects)))
       IN plan' = IF /\ day_num = days
                     /\ current_subject_index < Len(subjects)
                     /\ remaining_total_hours > 0
                  THEN DictSet(plan, key,
                         Append(DictGet(plan, key), RemainingEntry(remaining_total_hours)))
                  ELSE plan
    /\ day_num' = day_num + 1
    /\ pc' = "for_day"
    /\ UNCHANGED <<subjects, days, total_hours, hours_per_day,
                   current_subject_index, hours_assigned_today,
                   subject_cycle_index, result, supplied_hours, entry_hours,
                   calls, first_result>>

\* the first for loop is exhausted; lines 80-82
Discard ==
    /\ pc = "for_day"
    /\ day_num > days
    /\ plan' = <<>>
    /\ subject_cycle_index' = 0
    /\ day_num' = 1
    /\ pc' = "round_robin"
    /\ UNCHANGED <<subjects, days, total_hours, hours_per_day,
                   current_subject_index, hours_assigned_today, result,
                   supplied_hours, entry_hours, calls, first_result>>

\* one iteration of the second for loop, lines 82-94
RoundRobin ==
    /\ pc = "round_robin"
    /\ day_num <= days
    /\ subjects # <<>>
    /\ LET subject_to_assign == subjects[(subject_cycle_index % Len(subjects)) + 1]
       IN plan' = DictSet(plan, DayKey(day_num),
                     Entry(subject_to_assign.name, subject_to_assign.hours_needed))
    /\ subject_cycle_index' = subject_cycle_index + 1
    /\ day_num' = day_num + 1
    /\ UNCHANGED <<subjects, days, pc, total_hours, hours_per_day,
                   current_subject_index, hours_assigned_today, result,
                   supplied_hours, entry_hours, calls, first_result>>

\* the break of lines 83-84 or the end of the second loop; line 96
Return ==
    /\ pc = "round_robin"
    /\ (day_num > days \/ subjects = <<>>)
    /\ result' = plan
    /\ first_result' = IF calls = 1 THEN result' ELSE first_result
    /\ pc' = "done"
    /\ UNCHANGED <<subjects, days, total_hours, hours_per_day, plan,
                   current_subject_index, day_num, hours_assigned_today,
                   subject_cycle_index, supplied_hours, entry_hours, calls>>

\* the steps of a running call
Step ==
    \/ ReturnError
    \/ ComputeBudget
    \/ DayStart
    \/ WhileIter
    \/ WhileExit
    \/ LastDay
    \/ Discard
    \/ RoundRobin
    \/ Return

Next ==
    \/ Enter
    \/ ReturnError
    \/ ComputeBudget
    \/ DayStart
    \/ WhileIter
    \/ WhileExit
    \/ LastDay
    \/ Discard
    \/ RoundRobin
    \/ Return

Spec == Init /\ [][Next]_vars

\* a call that has started keeps running: the function has no suspension point
FairSpec == Init /\ [][Next]_vars /\ WF_vars(Step)

\* ------------------------------------------------------------ properties
Returned == pc = "done"

\* the call is over: it returned or it raised
Finished == pc \in {"done", "raised"}

IsError(r) == HasKey(r, ErrorKey)

\* every subject had hours_needed >= 1 when the running call started
WellFormedEntry == \A i \in 1..Len(entry_hours) : entry_hours[i] >= 1

RECURSIVE SumSeq(_)
SumSeq(s) == IF s = <<>> THEN 0 ELSE Head(s) + SumSeq(Tail(s))

\* the hours shown by the assignment strings of a returned schedule
ShownHours(r) == SumSeq([d \in 1..Len(r) |-> r[d].value.hours])

RECURSIVE InInputOrder(_, _, _)
\* the names of entries d.. of r can be matched to input positions >= pos
\* without ever going back
InInputOrder(r, d, pos) ==
    IF d > Len(r) THEN TRUE
    ELSE LET later == { p \in pos..Len(subjects) : subjects[p].name = r[d].value.name }
         IN IF later = {} THEN FALSE
            ELSE InInputOrder(r, d + 1, CHOOSE p \in later : \A q \in later : p <= q)

\* C1: the hours shown in the returned schedule sum to total_hours, the sum of
\* the subjects' hours_needed when the call started
C1_HourConservation ==
    (Returned /\ days >= 1 /\ WellFormedEntry)
        => ShownHours(result) = SumSeq(entry_hours)

\* C2: after generate_plan returns, every Subject has the hours_needed it had
\* before the call
C2_NonMutation ==
    Returned => HoursOf(subjects) = entry_hours

\* C3: with days <= 0 the result is exactly the error message, it holds no day
\* entry, and the subjects' hours_needed are unchanged
C3_InvalidDayCount ==
    (Finished /\ days <= 0)
        => /\ Returned
           /\ result = <<[key |-> ErrorKey, value |-> ErrorMessage]>>
           /\ \A d \in (0 - MaxNegDays)..MaxDays : ~HasKey(result, DayKey(d))
           /\ HoursOf(subjects) = entry_hours

C3_Witness ==
    /\ Returned
    /\ days <= 0
    /\ Len(subjects) >= 1
    /\ IsError(result)

\* C4: with days >= 1 the result has exactly `days` day entries, Day 1..days in
\* order, and each is an empty list when there are no subjects
C4_DayCount ==
    (Returned /\ days >= 1)
        => /\ Len(result) = days
           /\ \A d \in 1..days : result[d].key = DayKey(d)
           /\ (subjects = <<>> => \A d \in 1..days : result[d].value = <<>>)

\* C5: read in day order, the subjects named by the returned schedule appear
\* in the same relative order as in the input
C5_OrderPreserved ==
    (Returned /\ days >= 1) => InInputOrder(result, 1, 1)

\* C6: a later call on the same Subject objects returns what the first call,
\* made on the untouched subjects, returned
C6_Independence ==
    (Returned /\ calls >= 2) => result = first_result

\* C7: a call on well-formed input (days >= 1, hours_needed >= 1) always
\* terminates and returns a schedule, not an error and not an exception
C7_Termination ==
    (pc = "check_days" /\ days >= 1 /\ WellFormedEntry)
        ~> (Returned /\ ~IsError(result))

C7_Witness ==
    /\ Returned
    /\ days >= 2
    /\ Len(subjects) >= 2
    /\ WellFormedEntry
    /\ Len(result) = days
    /\ ~IsError(result)

\* C8: every day of the returned schedule carries exactly hours_per_day hours
\* of per-subject entries, or fewer only when all subjects are exhausted by
\* that day; never more
C8_PerDayBudget ==
    (Returned /\ days >= 1 /\ WellFormedEntry)
        => \A d \in 1..Len(result) :
                LET today == IF result[d].value.tail = "hrs"
                             THEN result[d].value.hours ELSE 0
                    sofar == ShownHours(SubSeq(result, 1, d))
                IN /\ result[d].key = DayKey(d)
                   /\ today <= hours_per_day
                   /\ (today < hours_per_day => sofar = SumSeq(entry_hours))

\* C9: when N > 0 hours are left after the per-day assignment, the last day
\* of the returned schedule ends with "Remaining Subjects - N hrs (Adjusted)";
\* no other day carries such an entry and none appears when N = 0
C9_LeftoverOnLastDay ==
    (Returned /\ days >= 1 /\ WellFormedEntry)
        => LET N == SumHours(subjects)
           IN /\ (N > 0 => /\ Len(result) = days
                           /\ result[days].value = RemainingEntry(N))
              /\ \A d \in 1..Len(result) :
                    result[d].value.tail = "hrs (Adjusted)" => (d = days /\ N > 0)

\* C10: day d of the returned schedule names the subject at input position
\* (d - 1) mod n and shows the hours the caller supplied for it
C10_RoundRobinOriginalHours ==
    (Returned /\ days >= 1 /\ Len(subjects) >= 1)
        => /\ Len(result) = days
           /\ \A d \in 1..days :
                LET i == ((d - 1) % Len(subjects)) + 1
                IN result[d].value = Entry(subjects[i].name, supplied_hours[i])

====
